---- MODULE Spec2Model ----
(***************************************************************************)
(* The shopping-cart demo app: the Cart Store (CartProvider), the three    *)
(* screens that drive it (Home, Cart, Checkout) and the stack navigation   *)
(* between them.  The store code is identical in both app variants.        *)
(*                                                                         *)
(* Three specifications:                                                     *)
(*   Spec       the app as the user drives it (screens, alerts, routes);   *)
(*   StoreSpec  the store's operations and the Cart screen's quantity      *)
(*              handler called in any order with any argument, i.e. the    *)
(*              contract of the context value on its own.                  *)
(*   SnapshotSpec  the store's operations invoked any number of times      *)
(*              between two renders of the provider: the handlers close    *)
(*              over the `cart` of the render that created them.           *)
(* In Spec and StoreSpec every handler runs to completion and the provider *)
(* re-renders before the next event, so each handler reads the cart left   *)
(* by the previous one.                                                    *)
(***************************************************************************)
EXTENDS Integers, Sequences, FiniteSets, TLC

\* ---- bounds ----
MaxQty == 2      \* quantities are not incremented beyond this
MaxNeg == 1      \* updateQuantity is tried with quantities -MaxNeg..MaxQty

\* ---- static data ----
\* The catalog; its entries carry no quantity field.
products ==
  << [id |-> "1", name |-> "Product 1", price |-> 10],
     [id |-> "2", name |-> "Product 2", price |-> 20],
     [id |-> "3", name |-> "Product 3", price |-> 30] >>

Ids == { products[i].id : i \in 1..Len(products) }

\* Arguments addToCart is tried with in StoreSpec: the catalog entries and
\* a full CartItem that has the first entry's id but another name, another
\* price and a quantity of its own.
ArgItems ==
  { products[i] : i \in 1..Len(products) } \cup
  { [id |-> products[1].id, name |-> "Other",
     price |-> products[1].price + 1, quantity |-> MaxQty + 2] }

Quantities == (0 - MaxNeg)..MaxQty

VARIABLES
  cart,      \* CartProvider's state: the sequence of line items
  snapshot,  \* the `cart` array the handlers of the last render close over
  route,     \* the screen on top of the navigation stack
  alert,     \* the Alert dialog on display, "none" if there is none
  prev,      \* history: the cart before the last handler ran
  last,      \* history: the last handler and its arguments
  addCount   \* history: per id, the length of the current run of addToCart
             \* calls that started with the id absent (0: no such run)

vars == << cart, snapshot, route, alert, prev, last, addCount >>

\* ---- Array helpers ----
\* Array.prototype.find by id: index of the first match, 0 if none.
find(c, id) ==
  IF \E i \in 1..Len(c) : c[i].id = id
  THEN CHOOSE i \in 1..Len(c) :
         c[i].id = id /\ \A j \in 1..(i - 1) : c[j].id # id
  ELSE 0

\* { ...product, quantity: 1 }
withQuantityOne(product) ==
  [k \in (DOMAIN product) \cup {"quantity"} |->
     IF k = "quantity" THEN 1 ELSE product[k]]

\* ---- CartProvider ----
addToCart_always_appends(c, product) ==
  Append(c, withQuantityOne(product))

addToCart_keeps_argument_quantity(c, product) ==
  LET i == find(c, product.id) IN
    IF i # 0
    THEN [c EXCEPT ![i].quantity = @ + 1]
    ELSE Append(c, IF "quantity" \in DOMAIN product
                   THEN product ELSE withQuantityOne(product))

addToCart_replaces_item(c, product) ==
  LET i == find(c, product.id) IN
    IF i # 0
    THEN [c EXCEPT ![i] = withQuantityOne(product),
                   ![i].quantity = c[i].quantity + 1]
    ELSE Append(c, withQuantityOne(product))

addToCart(c, product) ==
  LET i == find(c, product.id) IN
    IF i # 0
    THEN [c EXCEPT ![i].quantity = @ + 1]
    ELSE Append(c, withQuantityOne(product))

removeFromCart_drops_first(c, id) ==
  IF c = << >> THEN c ELSE Tail(c)

removeFromCart(c, id) ==
  SelectSeq(c, LAMBDA item : item.id # id)

updateQuantity_adds(c, id, quantity) ==
  LET i == find(c, id) IN
    IF i # 0 THEN [c EXCEPT ![i].quantity = @ + quantity] ELSE c

updateQuantity_removes_at_zero(c, id, quantity) ==
  LET i == find(c, id) IN
    IF i = 0 THEN c
    ELSE IF quantity <= 0 THEN SelectSeq(c, LAMBDA item : item.id # id)
    ELSE [c EXCEPT ![i].quantity = quantity]

updateQuantity_moves_to_end(c, id, quantity) ==
  LET i == find(c, id) IN
    IF i # 0
    THEN Append(SelectSeq(c, LAMBDA item : item.id # id),
                [c[i] EXCEPT !.quantity = quantity])
    ELSE c

updateQuantity(c, id, quantity) ==
  LET i == find(c, id) IN
    IF i # 0 THEN [c EXCEPT ![i].quantity = quantity] ELSE c

clearCart_keeps_first(c) ==
  IF c = << >> THEN c ELSE << c[1] >>

clearCart(c) == << >>

\* ---- CartScreen ----
handleQuantityChange_no_clamp(c, id, action) ==
  LET i == find(c, id) IN
    IF i # 0
    THEN updateQuantity(c, id, IF action = "increase"
                               THEN c[i].quantity + 1
                               ELSE c[i].quantity - 1)
    ELSE c

handleQuantityChange(c, id, action) ==
  LET i == find(c, id) IN
    IF i # 0
    THEN LET newQuantity == IF action = "increase"
                            THEN c[i].quantity + 1
                            ELSE c[i].quantity - 1
         IN updateQuantity(c, id, IF newQuantity > 0 THEN newQuantity ELSE 1)
    ELSE c

\* ---- CheckoutScreen ----
RECURSIVE reduce(_, _)
reduce(c, sum) ==
  IF c = << >> THEN sum
  ELSE reduce(Tail(c), sum + Head(c).price * Head(c).quantity)

RECURSIVE total_ignores_quantity(_)
total_ignores_quantity(c) ==
  IF c = << >> THEN 0
  ELSE Head(c).price + total_ignores_quantity(Tail(c))

total(c) == reduce(c, 0)

\* ---- history bookkeeping ----
NoProduct == [id |-> ""]

Op(name, id, quantity, product) ==
  [op |-> name, id |-> id, quantity |-> quantity, product |-> product]

\* A handler call followed by the provider's re-render.
Record(newCart, op, counts) ==
  /\ cart' = newCart
  /\ snapshot' = newCart
  /\ prev' = cart
  /\ last' = op
  /\ addCount' = counts

AfterAdd(id) ==
  [addCount EXCEPT ![id] = IF find(cart, id) = 0 THEN 1
                           ELSE IF @ >= 1 THEN @ + 1 ELSE 0]

AfterOther(id) == [addCount EXCEPT ![id] = 0]

\* The quantity of the line item an addToCart would increment is below the
\* bound (the counter itself is unbounded in the code).
CanAdd(id) ==
  IF find(cart, id) = 0 THEN TRUE ELSE cart[find(cart, id)].quantity < MaxQty

Init ==
  /\ cart = << >>
  /\ snapshot = << >>
  /\ route = "Home"
  /\ alert = "none"
  /\ prev = << >>
  /\ last = Op("init", "", 0, NoProduct)
  /\ addCount = [id \in Ids |-> 0]

\* ---- the app: screens, alerts and routes ----
Idle(screen) == route = screen /\ alert = "none"

\* HomeScreen: "Add to Cart" on a catalog entry.
handleAddToCart ==
  /\ Idle("Home")
  /\ \E i \in 1..Len(products) :
       /\ CanAdd(products[i].id)
       /\ Record(addToCart(cart, products[i]),
                 Op("addToCart", products[i].id, 0, products[i]),
                 AfterAdd(products[i].id))
  /\ alert' = "Item Added"
  /\ UNCHANGED route

\* The "Item Added" alert has the default OK button only.
dismissItemAdded ==
  /\ alert = "Item Added"
  /\ alert' = "none"
  /\ Record(cart, Op("dismiss", "", 0, NoProduct), addCount)
  /\ UNCHANGED route

goToCart ==
  /\ Idle("Home")
  /\ route' = "Cart"
  /\ Record(cart, Op("navigate", "", 0, NoProduct), addCount)
  /\ UNCHANGED alert

\* CartScreen: "+" and "-" exist for the line items on display.
pressQuantity ==
  /\ Idle("Cart")
  /\ \E i \in 1..Len(cart), action \in {"increase", "decrease"} :
       /\ action = "increase" => CanAdd(cart[i].id)
       /\ Record(handleQuantityChange(cart, cart[i].id, action),
                 Op(action, cart[i].id, 0, NoProduct),
                 AfterOther(cart[i].id))
  /\ UNCHANGED << route, alert >>

pressRemove ==
  /\ Idle("Cart")
  /\ \E i \in 1..Len(cart) :
       Record(removeFromCart(cart, cart[i].id),
              Op("removeFromCart", cart[i].id, 0, NoProduct),
              AfterOther(cart[i].id))
  /\ UNCHANGED << route, alert >>

goToCheckout ==
  /\ Idle("Cart")
  /\ route' = "Checkout"
  /\ Record(cart, Op("navigate", "", 0, NoProduct), addCount)
  /\ UNCHANGED alert

\* The stack header's back button (Home has none: headerLeft is null).
goBack ==
  /\ alert = "none"
  /\ route \in {"Cart", "Checkout"}
  /\ route' = IF route = "Checkout" THEN "Cart" ELSE "Home"
  /\ Record(cart, Op("goBack", "", 0, NoProduct), addCount)
  /\ UNCHANGED alert

\* CheckoutScreen with an empty cart: only "Go to Home" is rendered.
goToHome ==
  /\ Idle("Checkout")
  /\ Len(cart) = 0
  /\ route' = "Home"
  /\ Record(cart, Op("navigate", "", 0, NoProduct), addCount)
  /\ UNCHANGED alert

handleCheckout_on_any_cart ==
  /\ Idle("Checkout")
  /\ alert' = "Checkout successful"
  /\ Record(cart, Op("handleCheckout", "", 0, NoProduct), addCount)
  /\ UNCHANGED route

\* CheckoutScreen with line items: the "Checkout" button opens the alert.
handleCheckout ==
  /\ Idle("Checkout")
  /\ Len(cart) # 0
  /\ alert' = "Checkout successful"
  /\ Record(cart, Op("handleCheckout", "", 0, NoProduct), addCount)
  /\ UNCHANGED route

\* The alert's OK button: clearCart(), then navigation.navigate('Home').
confirmCheckout ==
  /\ alert = "Checkout successful"
  /\ alert' = "none"
  /\ Record(clearCart(cart), Op("confirmCheckout", "", 0, NoProduct),
            [id \in Ids |-> 0])
  /\ route' = "Home"

Next ==
  \/ handleAddToCart
  \/ dismissItemAdded
  \/ goToCart
  \/ pressQuantity
  \/ pressRemove
  \/ goToCheckout
  \/ goBack
  \/ goToHome
  \/ handleCheckout
  \/ confirmCheckout

Spec == Init /\ [][Next]_vars

\* ---- the store on its own: any call, any argument ----
callAddToCart ==
  /\ \E product \in ArgItems :
       /\ CanAdd(product.id)
       /\ Record(addToCart(cart, product),
                 Op("addToCart", product.id, 0, product),
                 AfterAdd(product.id))
  /\ UNCHANGED << route, alert >>

callRemoveFromCart ==
  /\ \E id \in Ids :
       Record(removeFromCart(cart, id),
              Op("removeFromCart", id, 0, NoProduct), AfterOther(id))
  /\ UNCHANGED << route, alert >>

callUpdateQuantity ==
  /\ \E id \in Ids, quantity \in Quantities :
       Record(updateQuantity(cart, id, quantity),
              Op("updateQuantity", id, quantity, NoProduct), AfterOther(id))
  /\ UNCHANGED << route, alert >>

callClearCart ==
  /\ Record(clearCart(cart), Op("clearCart", "", 0, NoProduct),
            [id \in Ids |-> 0])
  /\ UNCHANGED << route, alert >>

callHandleQuantityChange ==
  /\ \E id \in Ids, action \in {"increase", "decrease"} :
       /\ action = "increase" => CanAdd(id)
       /\ Record(handleQuantityChange(cart, id, action),
                 Op(action, id, 0, NoProduct), AfterOther(id))
  /\ UNCHANGED << route, alert >>

StoreNext ==
  \/ callAddToCart
  \/ callRemoveFromCart
  \/ callUpdateQuantity
  \/ callClearCart
  \/ callHandleQuantityChange

StoreSpec == Init /\ [][StoreNext]_vars

\* ---- the store between renders ----
\* A handler call that is not followed by a re-render: setCart has replaced
\* the state, the handlers still close over the array of the last render
\* (whose objects an addToCart or updateQuantity has mutated in place).
Stale(newCart, newSnapshot, op) ==
  /\ cart' = newCart
  /\ snapshot' = newSnapshot
  /\ prev' = cart
  /\ last' = op

invokeAddToCart ==
  /\ \E i \in 1..Len(products) :
       LET product == products[i]
           found == find(snapshot, product.id) # 0
       IN /\ found => snapshot[find(snapshot, product.id)].quantity < MaxQty
          /\ Stale(addToCart(snapshot, product),
                   IF found THEN addToCart(snapshot, product) ELSE snapshot,
                   Op("addToCart", product.id, 0, product))
  /\ UNCHANGED << route, alert, addCount >>

invokeRemoveFromCart ==
  /\ \E id \in Ids :
       Stale(removeFromCart(snapshot, id), snapshot,
             Op("removeFromCart", id, 0, NoProduct))
  /\ UNCHANGED << route, alert, addCount >>

\* Without a line item of that id in the closed-over array, updateQuantity
\* does not call setCart.
invokeUpdateQuantity ==
  /\ \E id \in Ids, quantity \in 1..MaxQty :
       Stale(IF find(snapshot, id) # 0
             THEN updateQuantity(snapshot, id, quantity) ELSE cart,
             updateQuantity(snapshot, id, quantity),
             Op("updateQuantity", id, quantity, NoProduct))
  /\ UNCHANGED << route, alert, addCount >>

invokeClearCart ==
  /\ Stale(clearCart(snapshot), snapshot, Op("clearCart", "", 0, NoProduct))
  /\ UNCHANGED << route, alert, addCount >>

\* The provider re-renders with the state: new handlers, closing over it.
render ==
  /\ snapshot # cart
  /\ Stale(cart, cart, Op("render", "", 0, NoProduct))
  /\ UNCHANGED << route, alert, addCount >>

SnapshotNext ==
  \/ invokeAddToCart
  \/ invokeRemoveFromCart
  \/ invokeUpdateQuantity
  \/ invokeClearCart
  \/ render

SnapshotSpec == Init /\ [][SnapshotNext]_vars

\* ======================================================================
\* Properties
\* ======================================================================
HasId(c, id) == \E i \in 1..Len(c) : c[i].id = id

Count(c, id) == Cardinality({ i \in 1..Len(c) : c[i].id = id })

Pos(c, id) == CHOOSE i \in 1..Len(c) : c[i].id = id

Item(c, id) == c[Pos(c, id)]

Max(a, b) == IF a >= b THEN a ELSE b

QuantitiesPositive(c) == \A i \in 1..Len(c) : c[i].quantity >= 1

\* Every line item with another id than `id` is in c2 exactly as in c1.
OthersKept(c1, c2, id) ==
  \A o \in Ids \ {id} :
    /\ Count(c2, o) = Count(c1, o)
    /\ HasId(c1, o) => Item(c2, o) = Item(c1, o)

\* The line items c1 and c2 have in common are in the same relative order.
OrderKept(c1, c2) ==
  \A a, b \in Ids :
    (HasId(c1, a) /\ HasId(c1, b) /\ HasId(c2, a) /\ HasId(c2, b))
      => ((Pos(c1, a) < Pos(c1, b)) <=> (Pos(c2, a) < Pos(c2, b)))

C3_OneLineItemPerId == \A id \in Ids : Count(cart, id) <= 1

C3_Witness ==
  /\ last.op = "addToCart"
  /\ HasId(prev, last.id)
  /\ Len(cart) = Len(products)
  /\ Count(cart, last.id) = 1

\* ---- C4 ----
\* C4: after a run of n >= 1 addToCart calls with one id that started with
\* the id absent, with no other operation on that id in between, the cart
\* has exactly one line item with that id and its quantity is n; a cart
\* made by adding the item priced 10 twice totals 20.
C4_QuantityCountsAdds ==
  \A id \in Ids :
    addCount[id] >= 1 =>
      /\ Count(cart, id) = 1
      /\ Item(cart, id).quantity = addCount[id]
      /\ (addCount[id] = 2 /\ Len(cart) = 1 /\ cart[1].price = 10)
           => (total(cart) = 20 /\ cart[1].quantity = 2)

C4_Witness ==
  /\ addCount["1"] = 2
  /\ cart = << [id |-> "1", name |-> "Product 1", price |-> 10,
                quantity |-> 2] >>
  /\ total(cart) = 20

\* ---- C5 ----
\* C5: addToCart(item) on a cart that has the id adds 1 to that line
\* item's quantity and changes nothing else (name, price, number and order
\* of line items); on a cart without the id it appends a line item with the
\* argument's id, name and price and quantity 1.
C5_AddToCartEffect ==
  last.op = "addToCart" =>
    IF HasId(prev, last.id)
    THEN /\ Len(cart) = Len(prev)
         /\ \A i \in 1..Len(prev) :
              /\ cart[i].id = prev[i].id
              /\ cart[i].name = prev[i].name
              /\ cart[i].price = prev[i].price
              /\ cart[i].quantity =
                   prev[i].quantity + (IF prev[i].id = last.id THEN 1 ELSE 0)
    ELSE /\ Len(cart) = Len(prev) + 1
         /\ \A i \in 1..Len(prev) : cart[i] = prev[i]
         /\ cart[Len(cart)].id = last.product.id
         /\ cart[Len(cart)].name = last.product.name
         /\ cart[Len(cart)].price = last.product.price
         /\ cart[Len(cart)].quantity = 1

\* An item with another name, price and quantity is added to a cart that
\* holds the catalog's item of that id, after another line item.
C5_Witness ==
  /\ last.op = "addToCart"
  /\ last.product.name = "Other"
  /\ Len(prev) >= 2
  /\ prev[2].id = last.id
  /\ prev[2].name = "Product 1"
  /\ cart[2].name = "Product 1"
  /\ cart[2].quantity = prev[2].quantity + 1

\* ---- C6 ----
\* C6: removeFromCart(id) leaves no line item with that id, keeps every
\* other line item as it was and in the same relative order; with no such
\* line item the cart is unchanged.
C6_RemoveFromCartEffect ==
  last.op = "removeFromCart" =>
    /\ ~HasId(cart, last.id)
    /\ OthersKept(prev, cart, last.id)
    /\ OrderKept(prev, cart)
    /\ Len(cart) = Len(prev) - Count(prev, last.id)
    /\ ~HasId(prev, last.id) => cart = prev

C6_Witness ==
  /\ last.op = "removeFromCart"
  /\ Len(prev) = Len(products)
  /\ prev[2].id = last.id
  /\ Len(cart) = Len(prev) - 1

\* ---- C7 ----
\* C7: clearCart() leaves the cart empty, whatever it held.
C7_ClearEmpties == last.op = "clearCart" => cart = << >>

\* add "1" and "2", remove "1", clear.
C7_Witness ==
  /\ last.op = "clearCart"
  /\ Len(prev) = 1
  /\ prev[1].id = "2"
  /\ cart = << >>

\* ---- C8 ----
RECURSIVE SumOver(_, _)
SumOver(S, c) ==
  IF S = {} THEN 0
  ELSE LET i == CHOOSE x \in S : \A y \in S : x >= y
       IN c[i].price * c[i].quantity + SumOver(S \ {i}, c)

\* C8: the total Checkout shows is the sum of price * quantity over the
\* line items of the cart, and 0 for the empty cart.
C8_TotalIsSum ==
  /\ total(cart) = SumOver(1..Len(cart), cart)
  /\ cart = << >> => total(cart) = 0

C8_Witness ==
  /\ route = "Checkout"
  /\ Len(cart) = Len(products)
  /\ \E i \in 1..Len(cart) : cart[i].quantity = MaxQty
  /\ total(cart) = 100

\* ---- C9 ----
\* C9: a line item leaves the cart only by removeFromCart with its id or
\* by clearCart; "-" on a line item of quantity 1 leaves it with quantity 1.
C9_RemovalIsExplicit ==
  /\ \A id \in Ids :
       (HasId(prev, id) /\ ~HasId(cart, id)) =>
          \/ (last.op = "removeFromCart" /\ last.id = id)
          \/ last.op \in {"clearCart", "confirmCheckout"}
  /\ (last.op = "decrease" /\ HasId(prev, last.id)
        /\ Item(prev, last.id).quantity = 1)
       => (HasId(cart, last.id) /\ Item(cart, last.id).quantity = 1)

C9_Witness ==
  /\ last.op = "decrease"
  /\ HasId(prev, last.id)
  /\ Item(prev, last.id).quantity = 1
  /\ HasId(cart, last.id)
  /\ Item(cart, last.id).quantity = 1
  /\ Len(cart) = 1

\* ---- C10 ----
\* C10: with an empty cart the Checkout screen offers the way to Home and
\* not the checkout; the checkout alert is only ever opened on a non-empty
\* cart; confirming it empties the cart and lands on Home.
C10_CheckoutFlow ==
  /\ (route = "Checkout" /\ alert = "none" /\ cart = << >>)
       => (ENABLED goToHome /\ ~ENABLED handleCheckout)
  /\ alert = "Checkout successful" => (route = "Checkout" /\ cart # << >>)
  /\ last.op = "handleCheckout" => prev # << >>
  /\ last.op = "confirmCheckout" =>
       (route = "Home" /\ cart = << >> /\ alert = "none")

C10_Witness ==
  /\ last.op = "confirmCheckout"
  /\ Len(prev) = Len(products)
  /\ route = "Home"
  /\ cart = << >>

\* ---- C11 ----
\* C11: every store mutation takes effect on the cart as the mutation
\* before it left it, also when no render lies between the two: the cart
\* after a call is the operation applied to the cart before the call.
C11_NoLostUpdate ==
  /\ last.op = "addToCart" => cart = addToCart(prev, last.product)
  /\ last.op = "removeFromCart" => cart = removeFromCart(prev, last.id)
  /\ last.op = "updateQuantity" =>
       cart = updateQuantity(prev, last.id, last.quantity)
  /\ last.op = "clearCart" => cart = << >>

\* ---- C12 ----
\* C12: addToCart, updateQuantity and the Cart screen's "+" and "-" on one
\* id leave every line item of another id as it was, keep every line item
\* of the cart in the cart and in the same relative order, and change
\* nothing but the quantity of the line item with that id.
C12_PerItemFrame ==
  last.op \in {"addToCart", "updateQuantity", "increase", "decrease"} =>
    /\ OthersKept(prev, cart, last.id)
    /\ OrderKept(prev, cart)
    /\ \A i \in 1..Len(prev) : cart[i].id = prev[i].id
    /\ HasId(prev, last.id) =>
         /\ Len(cart) = Len(prev)
         /\ Item(cart, last.id) =
              [Item(prev, last.id) EXCEPT
                 !.quantity = Item(cart, last.id).quantity]

\* "+" on the middle one of three line items, which holds the name and
\* price of an argument that was not the catalog's.
C12_Witness ==
  /\ last.op = "increase"
  /\ Len(prev) = Len(products)
  /\ prev[2].id = last.id
  /\ prev[2].name = "Other"
  /\ cart[2].name = "Other"
  /\ cart[2].quantity = prev[2].quantity + 1
  /\ cart[1] = prev[1]
  /\ cart[3] = prev[3]

====
